---- MODULE Spec2Model ----
(***************************************************************************)
(* Model of src/src/parser.rs: the MIB parser built on pest/pest_consume.   *)
(*                                                                         *)
(* Text is modelled as a sequence of one-character strings (longer chunks   *)
(* stand for a run of characters the code never looks into).  A u64 is      *)
(* four 16-bit limbs, least significant first, so that 64-bit overflow is   *)
(* computed exactly.                                                        *)
(***************************************************************************)
EXTENDS Integers, Sequences, FiniteSets, TLC

VARIABLES
    \* parse_mib, called on one text up to MaxCalls times
    mib_text,     \* the text under parse, as its sequence of module sources
    options,      \* ParseOptions of the current call
    pc,           \* where the current call stands
    nodes,        \* main_node: the parse tree, once recognized
    stdout,       \* the lines the current call has printed
    acc,          \* the modules reduced so far
    result,       \* the value the current call returned
    calls,        \* the calls that returned before the current one
    \* one literal reducer applied to one parsed leaf, as the unit tests do
    leaf_rule, leaf_input, leaf_pc, leaf_node, leaf_result

mib_vars == <<mib_text, options, pc, nodes, stdout, acc, result, calls>>

leaf_vars == <<leaf_rule, leaf_input, leaf_pc, leaf_node, leaf_result>>

vars == <<mib_text, options, pc, nodes, stdout, acc, result, calls,
          leaf_rule, leaf_input, leaf_pc, leaf_node, leaf_result>>

\* ------------------------------------------------------------------ bounds

\* Longest free prefix of a numeric literal's digits.
MaxHead == 2
\* Longest run of one repeated digit after the prefix, per radix.
MaxDecRun == 19
MaxHexRun == 16
MaxBinRun == 64
\* Longest raw content of a quoted string.
MaxStrLen == 4
\* Most sections of a module body, assignments of a module, modules of a text.
MaxSections == 3
MaxAssigns == 2
MaxModules == 2
\* Most calls of parse_mib on the text.
MaxCalls == 2

\* --------------------------------------------------------------- characters

DQ == "\""
SQ == "'"
SP == " "
TAB == "\t"
CR == "\r"
LF == "\n"

HWS == {SP, TAB}

RECURSIVE Rep(_, _)
Rep(c, k) == IF k = 0 THEN <<>> ELSE <<c>> \o Rep(c, k - 1)

RECURSIVE SeqsUpTo(_, _)
SeqsUpTo(S, n) ==
    IF n = 0 THEN {<<>>}
    ELSE LET shorter == SeqsUpTo(S, n - 1)
         IN  shorter \cup {<<c>> \o s : c \in S, s \in {t \in shorter : Len(t) = n - 1}}

\* ------------------------------------------------------------- parse tree

\* pest_consume::Node: the rule that matched, the span it matched, its children.
Node(rule, str, children) == [rule |-> rule, str |-> str, children |-> children]

NoNode == Node("none", <<>>, <<>>)

\* ------------------------------------------------------------------- u64

LimbBase == 65536

Zero64 == <<0, 0, 0, 0>>

\* u64::checked_mul by a radix.
CheckedMul(v, r) ==
    LET t1 == v[1] * r
        t2 == v[2] * r + (t1 \div LimbBase)
        t3 == v[3] * r + (t2 \div LimbBase)
        t4 == v[4] * r + (t3 \div LimbBase)
    IN  [ok  |-> (t4 \div LimbBase) = 0,
         val |-> <<t1 % LimbBase, t2 % LimbBase, t3 % LimbBase, t4 % LimbBase>>]

\* u64::checked_add of one digit.
CheckedAdd(v, d) ==
    LET t1 == v[1] + d
        t2 == v[2] + (t1 \div LimbBase)
        t3 == v[3] + (t2 \div LimbBase)
        t4 == v[4] + (t3 \div LimbBase)
    IN  [ok  |-> (t4 \div LimbBase) = 0,
         val |-> <<t1 % LimbBase, t2 % LimbBase, t3 % LimbBase, t4 % LimbBase>>]

\* char::to_digit for radix <= 16: the digit's value, or 99 when c is no digit.
CharValue(c) ==
    CASE c = "0" -> 0 [] c = "1" -> 1 [] c = "2" -> 2 [] c = "3" -> 3
      [] c = "4" -> 4 [] c = "5" -> 5 [] c = "6" -> 6 [] c = "7" -> 7
      [] c = "8" -> 8 [] c = "9" -> 9
      [] c \in {"a", "A"} -> 10 [] c \in {"b", "B"} -> 11
      [] c \in {"c", "C"} -> 12 [] c \in {"d", "D"} -> 13
      [] c \in {"e", "E"} -> 14 [] c \in {"f", "F"} -> 15
      [] OTHER -> 99

IsDigit(c, radix) == CharValue(c) < radix

\* --------------------------------------------------------------- results

\* Result<T, Error<Rule>> of a reducer: Ok(u64), Ok(String) or Err(error with span).
OkNum(v) == [kind |-> "Ok", type |-> "u64", num |-> v, text |-> <<>>,
             err |-> "none", span |-> <<>>]

OkText(t) == [kind |-> "Ok", type |-> "String", num |-> Zero64, text |-> t,
              err |-> "none", span |-> <<>>]

ErrAt(e, span) == [kind |-> "Err", type |-> "Error", num |-> Zero64, text |-> <<>>,
                   err |-> e, span |-> span]

NoResult == [kind |-> "None", type |-> "none", num |-> Zero64, text |-> <<>>,
             err |-> "none", span |-> <<>>]

\* ------------------------------------------------------- integer parsing

\* The digit loop of from_str_radix: an invalid digit or an overflow ends it.
RECURSIVE Accumulate(_, _, _, _)
Accumulate(digits, i, v, radix) ==
    IF i > Len(digits) THEN [err |-> "none", val |-> v]
    ELSE IF ~IsDigit(digits[i], radix) THEN [err |-> "InvalidDigit", val |-> v]
    ELSE LET mul == CheckedMul(v, radix)
         IN  IF ~mul.ok THEN [err |-> "PosOverflow", val |-> v]
             ELSE LET add == CheckedAdd(mul.val, CharValue(digits[i]))
                  IN  IF ~add.ok THEN [err |-> "PosOverflow", val |-> v]
                      ELSE Accumulate(digits, i + 1, add.val, radix)

\* u64::from_str_radix (and str::parse::<u64> for radix 10).
FromStrRadix(src, radix) ==
    IF src = <<>> THEN [err |-> "Empty", val |-> Zero64]
    ELSE IF src = <<"+">> \/ src = <<"-">> THEN [err |-> "InvalidDigit", val |-> Zero64]
    ELSE Accumulate(IF src[1] = "+" THEN Tail(src) ELSE src, 1, Zero64, radix)

ParsedOrError(r, span) == IF r.err = "none" THEN OkNum(r.val) ELSE ErrAt(r.err, span)

\* ------------------------------------------------------ literal decoders

\* A decoder that keeps what it has accumulated when the conversion fails.
number_string_Wrapping(node) == OkNum(FromStrRadix(node.str, 10).val)

number_string(node) == ParsedOrError(FromStrRadix(node.str, 10), node.str)

\* A decoder that drops one trailing character instead of two.
hex_string_OffByOne(node) ==
    LET s == node.str
        len == Len(s)
    IN  ParsedOrError(FromStrRadix(SubSeq(s, 2, len - 1), 16), s)

hex_string(node) ==
    LET s == node.str
        len == Len(s)
    IN  ParsedOrError(FromStrRadix(SubSeq(s, 2, len - 2), 16), s)

binary_string(node) ==
    LET s == node.str
        len == Len(s)
    IN  ParsedOrError(FromStrRadix(SubSeq(s, 2, len - 2), 2), s)

\* str::replace: the matches of `from`, left to right and not overlapping.
RECURSIVE Replace(_, _, _)
Replace(s, from, to) ==
    IF Len(s) < Len(from) THEN s
    ELSE IF SubSeq(s, 1, Len(from)) = from
         THEN to \o Replace(SubSeq(s, Len(from) + 1, Len(s)), from, to)
         ELSE <<s[1]>> \o Replace(Tail(s), from, to)

\* The first position at or after i that holds no space or tab (greedy [ \t]*).
RECURSIVE SkipHws(_, _)
SkipHws(s, i) == IF i <= Len(s) /\ s[i] \in HWS THEN SkipHws(s, i + 1) ELSE i

\* Regex [ \t]*\r?\n[ \t]* at position i: the position after the match, 0 if none.
MatchBreak(s, i) ==
    LET j == SkipHws(s, i)
    IN  IF j + 1 <= Len(s) /\ s[j] = CR /\ s[j + 1] = LF THEN SkipHws(s, j + 2)
        ELSE IF j <= Len(s) /\ s[j] = LF THEN SkipHws(s, j + 1)
        ELSE 0

\* Regex::replace_all: leftmost matches, not overlapping, each replaced by `to`.
RECURSIVE ReplaceBreaks(_, _, _)
ReplaceBreaks(s, i, to) ==
    IF i > Len(s) THEN <<>>
    ELSE LET e == MatchBreak(s, i)
         IN  IF e > 0 THEN to \o ReplaceBreaks(s, e, to)
             ELSE <<s[i]>> \o ReplaceBreaks(s, i + 1, to)

\* A decoder that leaves doubled quotes as they are.
inner_string_KeepsQuotes(node) == OkText(ReplaceBreaks(node.str, 1, <<LF>>))

inner_string(node) ==
    LET raw == Replace(node.str, <<DQ, DQ>>, <<DQ>>)
    IN  OkText(ReplaceBreaks(raw, 1, <<LF>>))

\* match_nodes!: the children's rules, in order.
ChildRules(node) == [i \in 1..Len(node.children) |-> node.children[i].rule]

quoted_string(node) ==
    IF ChildRules(node) = <<"inner_string">> THEN inner_string(node.children[1])
    ELSE ErrAt("match_nodes", node.str)

\* ------------------------------------------- leaf recognizer (lexical shape)

\* Characters the lexical shape of a literal's digits admits (letters and digits).
LexChars == {"0", "1", "2", "3", "4", "5", "6", "7", "8", "9",
             "a", "b", "c", "d", "e", "f", "A", "B", "C", "D", "E", "F", "G"}

RECURSIVE SkipWhile(_, _, _)
SkipWhile(s, i, S) == IF i <= Len(s) /\ s[i] \in S THEN SkipWhile(s, i + 1, S) ELSE i

\* number_string: one or more decimal digits, as far as they go.
RecognizeNumber(text) ==
    LET e == SkipWhile(text, 1, {c \in LexChars : IsDigit(c, 10)})
    IN  IF e = 1 THEN NoNode ELSE Node("number_string", SubSeq(text, 1, e - 1), <<>>)

\* hex_string, binary_string: ' digits ' and a marker letter of either case.
RecognizeRadix(rule, text, markers) ==
    IF Len(text) = 0 \/ text[1] # SQ THEN NoNode
    ELSE LET q == SkipWhile(text, 2, LexChars)
         IN  IF q + 1 <= Len(text) /\ text[q] = SQ /\ text[q + 1] \in markers
             THEN Node(rule, SubSeq(text, 1, q + 1), <<>>)
             ELSE NoNode

\* The end of a quoted string's content: a doubled quote is content, a single one is not.
RECURSIVE SkipInner(_, _)
SkipInner(s, i) ==
    IF i > Len(s) THEN i
    ELSE IF s[i] # DQ THEN SkipInner(s, i + 1)
    ELSE IF i + 1 <= Len(s) /\ s[i + 1] = DQ THEN SkipInner(s, i + 2)
    ELSE i

\* quoted_string: " inner_string ", the inner span captured raw.
RecognizeQuoted(text) ==
    IF Len(text) = 0 \/ text[1] # DQ THEN NoNode
    ELSE LET e == SkipInner(text, 2)
         IN  IF e <= Len(text)
             THEN Node("quoted_string", SubSeq(text, 1, e),
                       <<Node("inner_string", SubSeq(text, 2, e - 1), <<>>)>>)
             ELSE NoNode

\* MibParser::parse(rule, input) for the literal leaf rules.
RecognizeLeaf(rule, text) ==
    CASE rule = "number_string" -> RecognizeNumber(text)
      [] rule = "hex_string" -> RecognizeRadix(rule, text, {"H", "h"})
      [] rule = "binary_string" -> RecognizeRadix(rule, text, {"B", "b"})
      [] rule = "quoted_string" -> RecognizeQuoted(text)

\* ------------------------------------------------------------ leaf inputs

MaxU64Dec == <<"1", "8", "4", "4", "6", "7", "4", "4", "0", "7",
               "3", "7", "0", "9", "5", "5", "1", "6", "1", "5">>

DecInputs ==
    {h \o Rep(d, k) : h \in SeqsUpTo({"0", "1", "9", "A"}, MaxHead),
                      d \in {"0", "9"}, k \in 0..MaxDecRun}
    \cup {SubSeq(MaxU64Dec, 1, 19) \o <<c>> : c \in {"0", "4", "5", "6", "9"}}
    \cup {<<"1", "2", "3", "4", "5", "6", "7", "8">>, <<"A", "1", "2", "3", "4">>}

HexInputs ==
    {<<SQ>> \o h \o Rep(d, k) \o <<SQ, m>> :
        h \in SeqsUpTo({"0", "1", "F", "a", "G", "+"}, MaxHead),
        d \in {"0", "F"}, k \in 0..MaxHexRun, m \in {"H", "h"}}
    \cup {<<SQ, "D", "E", "A", "D", "B", "E", "E", "F", SQ, "H">>}

BinInputs ==
    {<<SQ>> \o h \o Rep(d, k) \o <<SQ, m>> :
        h \in SeqsUpTo({"0", "1", "2"}, MaxHead),
        d \in {"0", "1"}, k \in 0..MaxBinRun, m \in {"B", "b"}}
    \cup {<<SQ, "1", "1", "1", "1", "0", "0", "0", "0", SQ, "b">>}

StrChars == {"a", DQ, SP, TAB, CR, LF}

StrInputs ==
    {<<DQ>> \o s \o <<DQ>> : s \in SeqsUpTo(StrChars, MaxStrLen)}
    \cup {<<DQ, "this", SP, "is", SP, "a", SP, "quoted", SP, "string", DQ>>,
          <<DQ, "this", SP, "is", SP, "a", SP, DQ, DQ, "quoted", DQ, DQ, SP, "string", DQ>>,
          <<DQ, "this", SP, "is", SP, "a", SP, SP, SP, SP, LF, SP, SP, SP,
            "quoted", SP, "string", DQ>>,
          <<DQ, "this", SP, "is", SP, "a", SP, SP, SP, SP, CR, LF, SP, SP, SP,
            "quoted", SP, "string", DQ>>}

LeafInputs ==
    {[rule |-> "number_string", text |-> t] : t \in DecInputs}
    \cup {[rule |-> "hex_string", text |-> t] : t \in HexInputs}
    \cup {[rule |-> "binary_string", text |-> t] : t \in BinInputs}
    \cup {[rule |-> "quoted_string", text |-> t] : t \in StrInputs}

\* ------------------------------------------------------------ the model

NoErr == [kind |-> "none", at |-> 0]

\* pest's error for text the grammar does not match, at the item that fails.
SyntaxErr(at) == [kind |-> "syntax", at |-> at]

\* match_nodes!: no arm matches the children's rules.
MatchErr == [kind |-> "match_nodes", at |-> 0]

Ok(v) == [ok |-> TRUE, val |-> v, err |-> NoErr]

\* Err(e); `zero` only gives the record the shape of the value it lacks.
Err(e, zero) == [ok |-> FALSE, val |-> zero, err |-> e]

Some(v) == [some |-> TRUE, text |-> v]

None == [some |-> FALSE, text |-> <<>>]

Assignment(name, a_type, value) == [name |-> name, a_type |-> a_type, value |-> value]

NoAssignment == Assignment(<<>>, <<>>, None)

Module(name, assignments) == [name |-> name, assignments |-> assignments]

NoModule == Module(<<>>, <<>>)

MibInfo(modules) == [modules |-> modules]

NoMibInfo == MibInfo(<<>>)

NoReturn == [ok |-> FALSE, val |-> NoMibInfo, err |-> NoErr]

\* ------------------------------------------------------------ the reducers

\* format!("{:?}", node.as_rule()): the name of the node's own rule.
RuleText(node) == <<node.rule>>

identifier(node) == node.str

object_identifier_value(node) == RuleText(node)

import_list(node) == RuleText(node)

export_list(node) == RuleText(node)

\* A reducer that names the rule of the type form under the node.
some_type_Inner(node) == RuleText(node.children[1])

some_type(node) == RuleText(node)

\* A reducer that decodes a quoted-string value.
value_Decoded(node) ==
    IF node.children[1].rule = "quoted_string" THEN quoted_string(node.children[1]).text
    ELSE node.str

value(node) == node.str

module_identifier(node) ==
    LET c == node.children
    IN  CASE ChildRules(node) = <<"identifier">> -> Ok(identifier(c[1]))
          [] ChildRules(node) = <<"identifier", "object_identifier_value">> ->
                Ok(identifier(c[1]) \o <<"=">> \o object_identifier_value(c[2]))
          [] OTHER -> Err(MatchErr, <<>>)

value_assignment(node) ==
    LET c == node.children
    IN  IF ChildRules(node) = <<"identifier", "some_type", "value">>
        THEN Ok(Assignment(identifier(c[1]), some_type(c[2]), Some(value(c[3]))))
        ELSE Err(MatchErr, NoAssignment)

type_assignment(node) ==
    LET c == node.children
    IN  IF ChildRules(node) = <<"identifier", "some_type">>
        THEN Ok(Assignment(identifier(c[1]), some_type(c[2]), None))
        ELSE Err(MatchErr, NoAssignment)

assignment(node) ==
    LET c == node.children
    IN  CASE ChildRules(node) = <<"value_assignment">> -> value_assignment(c[1])
          [] ChildRules(node) = <<"type_assignment">> -> type_assignment(c[1])
          [] OTHER -> Err(MatchErr, NoAssignment)

\* The first error among the results, if any fails.
FirstErr(rs) ==
    LET bad == {i \in 1..Len(rs) : ~rs[i].ok}
    IN  IF bad = {} THEN NoErr
        ELSE rs[CHOOSE i \in bad : \A j \in bad : i <= j].err

\* A reducer that loses the last assignment.
assignment_list_DropsLast(node) ==
    LET c == node.children
    IN  Ok([i \in 1..(Len(c) - 1) |-> assignment(c[i]).val])

assignment_list(node) ==
    LET c == node.children
    IN  IF \A i \in 1..Len(c) : c[i].rule = "assignment"
        THEN LET rs == [i \in 1..Len(c) |-> assignment(c[i])]
             IN  IF FirstErr(rs) = NoErr THEN Ok([i \in 1..Len(c) |-> rs[i].val])
                 ELSE Err(FirstErr(rs), <<>>)
        ELSE Err(MatchErr, <<>>)

\* A reducer without the arm for an import list alone.
module_body_NoImportArm(node) ==
    LET c == node.children
    IN  CASE ChildRules(node) = <<"assignment_list">> -> assignment_list(c[1])
          [] ChildRules(node) = <<"export_list", "assignment_list">> ->
                assignment_list(c[2])
          [] ChildRules(node) = <<"export_list", "import_list", "assignment_list">> ->
                assignment_list(c[3])
          [] OTHER -> Err(MatchErr, <<>>)

module_body(node) ==
    LET c == node.children
    IN  CASE ChildRules(node) = <<"assignment_list">> -> assignment_list(c[1])
          [] ChildRules(node) = <<"export_list", "assignment_list">> ->
                assignment_list(c[2])
          [] ChildRules(node) = <<"import_list", "assignment_list">> ->
                assignment_list(c[2])
          [] ChildRules(node) = <<"export_list", "import_list", "assignment_list">> ->
                assignment_list(c[3])
          [] OTHER -> Err(MatchErr, <<>>)

module_definition(node) ==
    LET c == node.children
    IN  IF ChildRules(node) = <<"module_identifier", "module_body">>
        THEN LET mi == module_identifier(c[1])
                 mbs == module_body(c[2])
             IN  IF ~mi.ok THEN Err(mi.err, NoModule)
                 ELSE IF ~mbs.ok THEN Err(mbs.err, NoModule)
                 ELSE Ok(Module(mi.val, mbs.val))
        ELSE Err(MatchErr, NoModule)

\* mib's pattern [module_definition(defs).., EOI].
MibPattern(node) ==
    LET r == ChildRules(node)
    IN  /\ Len(r) >= 1
        /\ r[Len(r)] = "EOI"
        /\ \A i \in 1..(Len(r) - 1) : r[i] = "module_definition"

\* ------------------------------------------------------ the tree printer

clean_string(s) == <<DQ>> \o ReplaceBreaks(s, 1, <<"\\", "n">>) \o <<DQ>>

\* print_single_node, after the indentation print_nodes writes.
Line(level, node) ==
    [indent |-> level * 2,
     text |-> CASE node.rule \in {"identifier", "number_string"} -> node.str
                [] node.rule = "inner_string" -> clean_string(node.str)
                [] OTHER -> <<"<<", node.rule, ">>">>]

RECURSIVE print_nodes(_, _)
print_nodes(ns, level) ==
    IF ns = <<>> THEN <<>>
    ELSE <<Line(level, Head(ns))>> \o print_nodes(Head(ns).children, level + 1)
                                   \o print_nodes(Tail(ns), level)

print_node(node) == <<Line(0, node)>> \o print_nodes(node.children, 1)

\* --------------------------------------------- the grammar, as the text's shape

SectionRules == {"export_list", "import_list", "assignment_list"}

\* The module bodies the grammar matches.
BodyShapes ==
    {<<"assignment_list">>,
     <<"export_list", "assignment_list">>,
     <<"import_list", "assignment_list">>,
     <<"export_list", "import_list", "assignment_list">>}

LiteralRules == {"number_string", "hex_string", "binary_string", "quoted_string"}

\* value: the literal or other value form that matched, under the value node.
ValueTree(a) ==
    Node("value", a.value_text,
         <<IF a.value_form \in LiteralRules
           THEN RecognizeLeaf(a.value_form, a.value_text)
           ELSE Node(a.value_form, a.value_text, <<>>)>>)

TypeTree(a) == Node("some_type", <<a.type_form>>, <<Node(a.type_form, <<a.type_form>>, <<>>)>>)

AssignmentTree(a) ==
    Node("assignment", <<>>,
         <<IF a.has_value
           THEN Node("value_assignment", <<>>,
                     <<Node("identifier", a.name, <<>>), TypeTree(a), ValueTree(a)>>)
           ELSE Node("type_assignment", <<>>,
                     <<Node("identifier", a.name, <<>>), TypeTree(a)>>)>>)

SectionTree(rule, m) ==
    IF rule = "assignment_list"
    THEN Node(rule, <<>>, [j \in 1..Len(m.assigns) |-> AssignmentTree(m.assigns[j])])
    ELSE Node(rule, <<>>, <<>>)

ModuleTree(m) ==
    Node("module_definition", <<>>,
         <<Node("module_identifier", <<>>,
                <<Node("identifier", m.name, <<>>)>>
                \o (IF m.oid THEN <<Node("object_identifier_value", <<>>, <<>>)>> ELSE <<>>)),
           Node("module_body", <<>>,
                [k \in 1..Len(m.sections) |-> SectionTree(m.sections[k], m)])>>)

\* MibParser::parse(Rule::mib, mib_text): one or more module definitions, each body
\* one of the four shapes, then end of input.
RecognizeMib(text) ==
    LET n == Len(text.modules)
        bad == {i \in 1..n : text.modules[i].sections \notin BodyShapes}
    IN  IF n = 0 THEN Err(SyntaxErr(1), NoNode)
        ELSE IF bad # {} THEN Err(SyntaxErr(CHOOSE i \in bad : \A j \in bad : i <= j), NoNode)
        ELSE IF text.trailing THEN Err(SyntaxErr(n + 1), NoNode)
        ELSE Ok(Node("mib", <<>>,
                     [i \in 1..n |-> ModuleTree(text.modules[i])] \o <<Node("EOI", <<>>, <<>>)>>))

\* ------------------------------------------------------------- the texts

AssignSrc(name, type_form, has_value, value_form, value_text) ==
    [name |-> name, type_form |-> type_form, has_value |-> has_value,
     value_form |-> value_form, value_text |-> value_text]

\* synoDisk MODULE-IDENTITY ... ::= { synology 2 }
SynoDisk ==
    AssignSrc(<<"synoDisk">>, "snmp_module_identity_macro_type", TRUE,
              "object_identifier_value", <<"{", SP, "synology", SP, "2", SP, "}">>)

AssignSrcs ==
    {SynoDisk,
     AssignSrc(<<"diskMask">>, "builtin_type", TRUE, "hex_string", <<SQ, "1", "F", SQ, "H">>),
     AssignSrc(<<"diskWide">>, "builtin_type", TRUE, "hex_string",
               <<SQ>> \o Rep("F", 17) \o <<SQ, "h">>),
     AssignSrc(<<"diskName">>, "defined_type", TRUE, "quoted_string",
               <<DQ, "a", DQ, DQ, SP, LF, "b", DQ>>),
     AssignSrc(<<"diskCount">>, "builtin_type", TRUE, "number_string", <<"0", "4", "2">>),
     AssignSrc(<<"DiskEntry">>, "sequence_of_type", FALSE, "none", <<>>)}

ModuleSrc(name, oid, sections, assigns) ==
    [name |-> name, oid |-> oid, sections |-> sections, assigns |-> assigns]

ModuleSrcs ==
    {ModuleSrc(<<"SYNOLOGY-DISK-MIB">>, FALSE, ss, as) :
        ss \in SeqsUpTo(SectionRules, MaxSections),
        as \in {<<>>, <<SynoDisk>>}}
    \cup {ModuleSrc(<<"SYNOLOGY-DISK-MIB">>, FALSE, ss, as) :
        ss \in BodyShapes, as \in SeqsUpTo(AssignSrcs, MaxAssigns)}
    \cup {ModuleSrc(<<"SYNOLOGY-DISK-MIB">>, TRUE, ss, <<SynoDisk>>) : ss \in BodyShapes}

CoreModules ==
    {ModuleSrc(<<"A-MIB">>, FALSE, <<"assignment_list">>, <<SynoDisk>>),
     ModuleSrc(<<"B-MIB">>, TRUE, <<"import_list", "assignment_list">>,
               <<AssignSrc(<<"DiskEntry">>, "sequence_of_type", FALSE, "none", <<>>), SynoDisk>>),
     ModuleSrc(<<"C-MIB">>, FALSE, <<"import_list", "export_list", "assignment_list">>,
               <<SynoDisk>>)}

Texts ==
    {[modules |-> ms, trailing |-> t] :
        ms \in {<<m>> : m \in ModuleSrcs}
               \cup {c \in SeqsUpTo(CoreModules, MaxModules) : Len(c) # 1},
        t \in BOOLEAN}

\* ------------------------------------------------------------- parse_mib

\* No literal reducer is under test.
LeafIdle ==
    /\ leaf_rule = "none"
    /\ leaf_input = <<>>
    /\ leaf_pc = "off"
    /\ leaf_node = NoNode
    /\ leaf_result = NoResult

MibIdle ==
    /\ mib_text = [modules |-> <<>>, trailing |-> FALSE]
    /\ options = [pretty_print |-> FALSE]
    /\ pc = "off"
    /\ nodes = NoNode
    /\ stdout = <<>>
    /\ acc = <<>>
    /\ result = NoReturn
    /\ calls = <<>>

Init ==
    /\ mib_text \in Texts
    /\ options = [pretty_print |-> FALSE]
    /\ pc = "idle"
    /\ nodes = NoNode
    /\ stdout = <<>>
    /\ acc = <<>>
    /\ result = NoReturn
    /\ calls = <<>>
    /\ LeafIdle

\* The caller calls parse_mib(mib_text, o), after any earlier call has returned.
Call(o) ==
    /\ pc \in {"idle", "returned"}
    /\ LET past == IF pc = "returned"
                   THEN Append(calls, [options |-> options, result |-> result,
                                       stdout |-> stdout])
                   ELSE calls
       IN  /\ Len(past) < MaxCalls
           /\ calls' = past
    /\ options' = o
    /\ pc' = "parse"
    /\ nodes' = NoNode
    /\ stdout' = <<>>
    /\ acc' = <<>>
    /\ result' = NoReturn
    /\ UNCHANGED mib_text
    /\ UNCHANGED leaf_vars

\* A parse_mib that prints whatever the options say.
NextStage_Always(o) == "print"

\* if options.pretty_print { print_node(..) }: what follows recognition.
NextStage(o) == IF o.pretty_print THEN "print" ELSE "reduce"

\* A parse_mib that goes on with an empty tree when recognition fails.
Parse_Swallow ==
    /\ pc = "parse"
    /\ LET r == RecognizeMib(mib_text)
       IN  /\ nodes' = IF r.ok THEN r.val ELSE Node("mib", <<>>, <<Node("EOI", <<>>, <<>>)>>)
           /\ pc' = NextStage(options)
           /\ UNCHANGED result
    /\ UNCHANGED <<mib_text, options, stdout, acc, calls>>
    /\ UNCHANGED leaf_vars

\* MibParser::parse(Rule::mib, mib_text)? and nodes.single()?
Parse ==
    /\ pc = "parse"
    /\ LET r == RecognizeMib(mib_text)
       IN  IF r.ok
           THEN /\ nodes' = r.val
                /\ pc' = NextStage(options)
                /\ UNCHANGED result
           ELSE /\ result' = Err(r.err, NoMibInfo)
                /\ pc' = "returned"
                /\ UNCHANGED nodes
    /\ UNCHANGED <<mib_text, options, stdout, acc, calls>>
    /\ UNCHANGED leaf_vars

\* A parse_mib whose printer takes the tree away from the reducer.
PrettyPrint_Consumes ==
    /\ pc = "print"
    /\ stdout' = stdout \o print_node(nodes)
    /\ nodes' = NoNode
    /\ pc' = "reduce"
    /\ UNCHANGED <<mib_text, options, acc, result, calls>>
    /\ UNCHANGED leaf_vars

\* print_node(main_node.clone())
PrettyPrint ==
    /\ pc = "print"
    /\ stdout' = stdout \o print_node(nodes)
    /\ pc' = "reduce"
    /\ UNCHANGED <<mib_text, options, nodes, acc, result, calls>>
    /\ UNCHANGED leaf_vars

\* MibParser::mib: the next module_definition child is reduced; its error returns.
ReduceModule ==
    /\ pc = "reduce"
    /\ MibPattern(nodes)
    /\ Len(acc) < Len(nodes.children) - 1
    /\ LET r == module_definition(nodes.children[Len(acc) + 1])
       IN  IF r.ok
           THEN /\ acc' = Append(acc, r.val)
                /\ UNCHANGED <<pc, result>>
           ELSE /\ result' = Err(r.err, NoMibInfo)
                /\ pc' = "returned"
                /\ UNCHANGED acc
    /\ UNCHANGED <<mib_text, options, nodes, stdout, calls>>
    /\ UNCHANGED leaf_vars

\* MibParser::mib: MibInfo{ modules: defs.collect() }, or no arm matches.
Finish ==
    /\ pc = "reduce"
    /\ ~MibPattern(nodes) \/ Len(acc) = Len(nodes.children) - 1
    /\ result' = IF MibPattern(nodes) THEN Ok(MibInfo(acc)) ELSE Err(MatchErr, NoMibInfo)
    /\ pc' = "returned"
    /\ UNCHANGED <<mib_text, options, nodes, stdout, acc, calls>>
    /\ UNCHANGED leaf_vars

Next ==
    \/ \E o \in [pretty_print : BOOLEAN] : Call(o)
    \/ Parse
    \/ PrettyPrint
    \/ ReduceModule
    \/ Finish

Spec == Init /\ [][Next]_vars

\* ----------------------------------------------- leaf reducers, one at a time

LeafInit ==
    /\ \E in \in LeafInputs : leaf_rule = in.rule /\ leaf_input = in.text
    /\ leaf_pc = "input"
    /\ leaf_node = NoNode
    /\ leaf_result = NoResult
    /\ MibIdle

\* parse(rule, input): the recognizer; a mismatch is a syntax error.
LeafParse ==
    /\ leaf_pc = "input"
    /\ LET n == RecognizeLeaf(leaf_rule, leaf_input)
       IN  /\ leaf_node' = n
           /\ IF n = NoNode
              THEN leaf_pc' = "done" /\ leaf_result' = ErrAt("syntax", <<>>)
              ELSE leaf_pc' = "parsed" /\ UNCHANGED leaf_result
    /\ UNCHANGED <<leaf_rule, leaf_input>>
    /\ UNCHANGED mib_vars

ReduceLeaf(rule, r) ==
    /\ leaf_pc = "parsed"
    /\ leaf_node.rule = rule
    /\ leaf_result' = r
    /\ leaf_pc' = "done"
    /\ UNCHANGED <<leaf_rule, leaf_input, leaf_node>>
    /\ UNCHANGED mib_vars

ReduceNumberString == ReduceLeaf("number_string", number_string(leaf_node))

ReduceHexString == ReduceLeaf("hex_string", hex_string(leaf_node))

ReduceBinaryString == ReduceLeaf("binary_string", binary_string(leaf_node))

ReduceQuotedString == ReduceLeaf("quoted_string", quoted_string(leaf_node))

LeafNext ==
    \/ LeafParse
    \/ ReduceNumberString
    \/ ReduceHexString
    \/ ReduceBinaryString
    \/ ReduceQuotedString

LeafSpec == LeafInit /\ [][LeafNext]_vars

\* ------------------------------------------------- what a literal denotes

Pow2(k) == 2 ^ k

\* The digit of weight (2^bits)^p in v, for bits dividing 16.
DigitOf(v, p, bits) == (v[((p * bits) \div 16) + 1] \div Pow2((p * bits) % 16)) % Pow2(bits)

\* All digits beyond the 64 bits are zero.
FitsBits(digits, bits) ==
    \A i \in 1..Len(digits) :
        (Len(digits) - i) * bits >= 64 => CharValue(digits[i]) = 0

\* v is the number the digits denote in base 2^bits: digit by digit, from the right.
DenotesBits(v, digits, bits) ==
    \A p \in 0..((64 \div bits) - 1) :
        DigitOf(v, p, bits) = IF p < Len(digits) THEN CharValue(digits[Len(digits) - p]) ELSE 0

RECURSIVE StripZeros(_)
StripZeros(d) == IF Len(d) > 1 /\ d[1] = "0" THEN StripZeros(Tail(d)) ELSE d

\* a <= b for decimal digit strings of the same length.
RECURSIVE LexLeq(_, _)
LexLeq(a, b) ==
    IF a = <<>> THEN TRUE
    ELSE IF CharValue(a[1]) # CharValue(b[1]) THEN CharValue(a[1]) < CharValue(b[1])
    ELSE LexLeq(Tail(a), Tail(b))

FitsDec(digits) ==
    LET d == StripZeros(digits)
    IN  Len(d) < Len(MaxU64Dec) \/ (Len(d) = Len(MaxU64Dec) /\ LexLeq(d, MaxU64Dec))

DecChar(n) == CHOOSE c \in {"0", "1", "2", "3", "4", "5", "6", "7", "8", "9"} : CharValue(c) = n

\* v divided by ten, limb by limb from the top: quotient and remainder.
DivTen(v) ==
    LET c4 == v[4]
        c3 == (c4 % 10) * LimbBase + v[3]
        c2 == (c3 % 10) * LimbBase + v[2]
        c1 == (c2 % 10) * LimbBase + v[1]
    IN  [quot |-> <<c1 \div 10, c2 \div 10, c3 \div 10, c4 \div 10>>, rem |-> c1 % 10]

\* The decimal digits of v, without leading zeros.
RECURSIVE ToDec(_)
ToDec(v) ==
    LET qr == DivTen(v)
    IN  IF qr.quot = Zero64 THEN <<DecChar(qr.rem)>>
        ELSE ToDec(qr.quot) \o <<DecChar(qr.rem)>>

Radix(rule) == CASE rule = "number_string" -> 10 [] rule = "hex_string" -> 16
                 [] rule = "binary_string" -> 2 [] OTHER -> 0

\* The digits of the literal under decoding: a number's whole span, a hex or binary
\* literal's characters strictly between its two quote marks.
QuoteMarks(s) == {i \in 1..Len(s) : s[i] = SQ}

LiteralDigits ==
    IF leaf_rule = "number_string" THEN leaf_node.str
    ELSE LET q == QuoteMarks(leaf_node.str)
             lo == CHOOSE i \in q : \A j \in q : i <= j
             hi == CHOOSE i \in q : \A j \in q : i >= j
         IN  SubSeq(leaf_node.str, lo + 1, hi - 1)

ValidDigits(digits, radix) ==
    digits # <<>> /\ \A i \in 1..Len(digits) : IsDigit(digits[i], radix)

Fits(digits, radix) ==
    CASE radix = 10 -> FitsDec(digits)
      [] radix = 16 -> FitsBits(digits, 4)
      [] radix = 2 -> FitsBits(digits, 1)

Denotes(v, digits, radix) ==
    CASE radix = 10 -> ToDec(v) = StripZeros(digits)
      [] radix = 16 -> DenotesBits(v, digits, 4)
      [] radix = 2 -> DenotesBits(v, digits, 1)

LeafReduced(rules) == leaf_pc = "done" /\ leaf_rule \in rules /\ leaf_node # NoNode

\* ----------------------------------------------- quoted string, by position

RECURSIVE RunStart(_, _, _)
RunStart(s, i, S) == IF i > 1 /\ s[i - 1] \in S THEN RunStart(s, i - 1, S) ELSE i

RECURSIVE RunEnd(_, _, _)
RunEnd(s, i, S) == IF i < Len(s) /\ s[i + 1] \in S THEN RunEnd(s, i + 1, S) ELSE i

\* Whether the character at position i of the raw content survives decoding:
\* of each pair of quotes the first one; a CR unless an LF follows it; a space or
\* tab unless its block of spaces and tabs touches a line break.
KeptAt(s, i) ==
    IF s[i] = DQ THEN (i - RunStart(s, i, {DQ})) % 2 = 0
    ELSE IF s[i] = CR THEN ~(i < Len(s) /\ s[i + 1] = LF)
    ELSE IF s[i] \in HWS
         THEN LET a == RunStart(s, i, HWS)
                  b == RunEnd(s, i, HWS)
              IN  ~ \/ (b < Len(s) /\ s[b + 1] = LF)
                    \/ (b + 1 < Len(s) /\ s[b + 1] = CR /\ s[b + 2] = LF)
                    \/ (a > 1 /\ s[a - 1] = LF)
    ELSE TRUE

RECURSIVE KeptFrom(_, _)
KeptFrom(s, i) ==
    IF i > Len(s) THEN <<>>
    ELSE (IF KeptAt(s, i) THEN <<s[i]>> ELSE <<>>) \o KeptFrom(s, i + 1)

RawInner == leaf_node.children[1].str

HasDoubledQuote(s) == \E i \in 1..(Len(s) - 1) : s[i] = DQ /\ s[i + 1] = DQ

HasLineBreak(s) == \E i \in 1..Len(s) : s[i] = LF

\* C3: the decoded quoted string is the raw inner content with every doubled quote
\* collapsed to one quote and then every run (spaces/tabs)* [CR] LF (spaces/tabs)*
\* replaced by one LF; content with no doubled quote and no line break is unchanged.
C3_QuotedStringDecoding ==
    LeafReduced({"quoted_string"}) =>
        /\ leaf_result = OkText(KeptFrom(RawInner, 1))
        /\ (~HasDoubledQuote(RawInner) /\ ~HasLineBreak(RawInner)) => leaf_result.text = RawInner

C3_Witness ==
    /\ LeafReduced({"quoted_string"})
    /\ RawInner = <<DQ, DQ, CR, LF>>
    /\ leaf_result.text = <<DQ, LF>>

\* C4: a hex or binary literal whose value fits in 64 bits decodes to the number its
\* digits denote, the digits being the span less its first character and its last
\* two, whatever the case of the marker letter.
C4_RadixDecoding ==
    LeafReduced({"hex_string", "binary_string"}) =>
        LET digits == LiteralDigits
            radix == Radix(leaf_rule)
        IN  /\ Len(digits) = Len(leaf_node.str) - 3
            /\ (ValidDigits(digits, radix) /\ Fits(digits, radix)) =>
                  /\ leaf_result.kind = "Ok"
                  /\ leaf_result.type = "u64"
                  /\ Denotes(leaf_result.num, digits, radix)

C4_Witness ==
    /\ LeafReduced({"hex_string"})
    /\ leaf_input = <<SQ, "D", "E", "A", "D", "B", "E", "E", "F", SQ, "H">>
    /\ leaf_result = OkNum(<<48879, 57005, 0, 0>>)

Recognized == RecognizeMib(mib_text).ok

Returned == pc = "returned"

\* The calls that have returned, the current one last.
AllCalls ==
    IF Returned
    THEN Append(calls, [options |-> options, result |-> result, stdout |-> stdout])
    ELSE calls

\* The value assignments of the text: module, position in its assignment list.
ValueAssignments ==
    UNION {{<<i, j>> : j \in {k \in 1..Len(mib_text.modules[i].assigns) :
                                  mib_text.modules[i].assigns[k].has_value}} :
           i \in 1..Len(mib_text.modules)}

Source(ij) == mib_text.modules[ij[1]].assigns[ij[2]]

Reduced(ij) == result.val.modules[ij[1]].assignments[ij[2]]

\* C1: parse_mib returns a complete Document or one error; when recognition fails
\* that failure is what returns, nothing was printed or reduced, and no Document,
\* partial or whole, comes back.
C1_DocumentOrFirstError ==
    /\ ~Returned => result = NoReturn
    /\ Returned =>
          \/ /\ result.ok
             /\ result.err = NoErr
             /\ Recognized
             /\ Len(result.val.modules) = Len(mib_text.modules)
          \/ /\ ~result.ok
             /\ result.err # NoErr
             /\ result.val = NoMibInfo
    /\ (~Recognized /\ pc \in {"print", "reduce", "returned"}) =>
          /\ Returned
          /\ result = Err(RecognizeMib(mib_text).err, NoMibInfo)
          /\ nodes = NoNode
          /\ stdout = <<>>
          /\ acc = <<>>

C1_Witness ==
    /\ Returned
    /\ options.pretty_print
    /\ Len(mib_text.modules) = 2
    /\ mib_text.modules[1].sections \in BodyShapes
    /\ result = Err(SyntaxErr(2), NoMibInfo)
    /\ acc = <<>>

\* C2: calls on the same text that differ in prettyPrint return the same value: the
\* same Document, or the same error.
C2_PrettyPrintNoEffect ==
    \A a, b \in 1..Len(AllCalls) :
        AllCalls[a].options.pretty_print # AllCalls[b].options.pretty_print =>
            /\ AllCalls[a].result.ok = AllCalls[b].result.ok
            /\ AllCalls[a].result = AllCalls[b].result

C2_Witness ==
    /\ Returned
    /\ Len(calls) = 1
    /\ calls[1].options.pretty_print
    /\ ~options.pretty_print
    /\ result.ok
    /\ Len(result.val.modules) = 2
    /\ calls[1].stdout # <<>>

FourShapes ==
    {<<"assignment_list">>,
     <<"export_list", "assignment_list">>,
     <<"import_list", "assignment_list">>,
     <<"export_list", "import_list", "assignment_list">>}

\* C6: a module body is accepted exactly when its sections are one of the four
\* shapes; any other sequence of sections is rejected with an error.
C6_FourBodyShapes ==
    (Returned /\ Len(mib_text.modules) >= 1 /\ ~mib_text.trailing) =>
        /\ result.ok <=> \A i \in 1..Len(mib_text.modules) :
                             mib_text.modules[i].sections \in FourShapes
        /\ ~result.ok => result.err # NoErr

C6_Witness ==
    /\ Returned
    /\ ~mib_text.trailing
    /\ Len(mib_text.modules) = 1
    /\ mib_text.modules[1].sections = <<"import_list", "export_list", "assignment_list">>
    /\ ~result.ok
    /\ result.err.kind = "syntax"

\* C7: a Module's assignments are those of its assignment list: as many, the same
\* ones, in source order, whichever shape the body has.
C7_AssignmentsInOrder ==
    (Returned /\ result.ok) =>
        /\ Len(result.val.modules) = Len(mib_text.modules)
        /\ \A i \in 1..Len(mib_text.modules) :
              LET got == result.val.modules[i].assignments
                  src == mib_text.modules[i].assigns
              IN  /\ Len(got) = Len(src)
                  /\ \A j \in 1..Len(src) :
                        /\ got[j].name = src[j].name
                        /\ got[j].value.some = src[j].has_value
                        /\ src[j].has_value => got[j].value.text = src[j].value_text

C7_Witness ==
    /\ Returned
    /\ result.ok
    /\ mib_text.modules[1].sections = <<"import_list", "assignment_list">>
    /\ Len(mib_text.modules[1].assigns) = 2
    /\ result.val.modules[1].assignments[1].name = <<"DiskEntry">>
    /\ result.val.modules[1].assignments[2].name = <<"synoDisk">>

\* C8 (as amended): a value assignment reduces to an Assignment with the
\* identifier as its name, the rule name some_type as its type placeholder,
\* whatever form the type expression has, and the value expression's matched text
\* as its value.
C8_ValueAssignment ==
    (Returned /\ result.ok) =>
        \A ij \in ValueAssignments :
            /\ Reduced(ij).name = Source(ij).name
            /\ Reduced(ij).a_type = <<"some_type">>
            /\ Reduced(ij).value = Some(Source(ij).value_text)

C8_Witness ==
    /\ Returned
    /\ result.ok
    /\ \E ij \in ValueAssignments :
          /\ Source(ij).type_form = "snmp_module_identity_macro_type"
          /\ Reduced(ij) = Assignment(<<"synoDisk">>, <<"some_type">>,
                                      Some(<<"{", SP, "synology", SP, "2", SP, "}">>))

\* C8 as stated: the type placeholder identifies the form of the matched type
\* expression, so assignments of different type forms have different placeholders.
C8_AsStated ==
    (Returned /\ result.ok) =>
        /\ \A ij \in ValueAssignments :
              /\ Reduced(ij).name = Source(ij).name
              /\ Reduced(ij).value = Some(Source(ij).value_text)
        /\ \A ij, kl \in ValueAssignments :
              Source(ij).type_form # Source(kl).type_form =>
                  Reduced(ij).a_type # Reduced(kl).a_type

\* The literal decoder of a rule, on the leaf the rule matched.
DecodeLeaf(rule, text) ==
    LET n == RecognizeLeaf(rule, text)
    IN  CASE rule = "number_string" -> number_string(n)
          [] rule = "hex_string" -> hex_string(n)
          [] rule = "binary_string" -> binary_string(n)
          [] rule = "quoted_string" -> quoted_string(n)

\* A decoded primitive as text: a number in decimal, a string as it is.
Rendered(r) == IF r.type = "u64" THEN ToDec(r.num) ELSE r.text

\* C9 (as amended): whatever rule matched the value expression, the four literal
\* leaf rules included, the Assignment's value is the raw matched text; no
\* literal decoder runs, so a literal no decoder accepts still reduces.
C9_ValueIsRawText ==
    (Returned /\ Recognized) =>
        /\ result.ok
        /\ \A ij \in ValueAssignments :
              /\ Reduced(ij).value.some
              /\ Reduced(ij).value.text = Source(ij).value_text

C9_Witness ==
    /\ Returned
    /\ result.ok
    /\ \E ij \in ValueAssignments :
          /\ Source(ij).value_form = "hex_string"
          /\ DecodeLeaf("hex_string", Source(ij).value_text).kind = "Err"
          /\ Reduced(ij).value = Some(<<SQ>> \o Rep("F", 17) \o <<SQ, "h">>)

\* C9 as stated: a value that is a literal leaf is decoded, and the decoded
\* primitive is the Assignment's value; any other value is the raw text.
C9_AsStated ==
    (Returned /\ result.ok) =>
        \A ij \in ValueAssignments :
            IF Source(ij).value_form \in LiteralRules
            THEN LET d == DecodeLeaf(Source(ij).value_form, Source(ij).value_text)
                 IN  d.kind = "Ok" /\ Reduced(ij).value = Some(Rendered(d))
            ELSE Reduced(ij).value = Some(Source(ij).value_text)

\* The dumps in an output: each starts with the one line that is not indented.
DumpCount(out) == Cardinality({i \in 1..Len(out) : out[i].indent = 0})

DumpOrder ==
    /\ \A i \in 1..Len(calls) :
          /\ DumpCount(calls[i].stdout) <= 1
          /\ calls[i].stdout # <<>> => (calls[i].options.pretty_print /\ calls[i].result.ok)
    /\ DumpCount(stdout) <= 1
    /\ stdout # <<>> => (options.pretty_print /\ Recognized /\ nodes # NoNode)
    /\ (~options.pretty_print \/ ~Recognized) => stdout = <<>>
    /\ (options.pretty_print /\ (pc = "reduce" \/ acc # <<>> \/ (Returned /\ result.ok))) =>
          DumpCount(stdout) = 1

DumpStep ==
    /\ Len(stdout') > Len(stdout) =>
          /\ pc = "print"
          /\ options.pretty_print
          /\ stdout = <<>>
          /\ acc = <<>> /\ acc' = <<>>
          /\ result' = NoReturn
    /\ (pc \in {"reduce", "returned"} /\ pc' # "parse") => stdout' = stdout

\* C10: a call dumps the tree at most once and only with prettyPrint set, after
\* recognition has succeeded and before the first reduction step, never during or
\* after reduction; without prettyPrint, or when recognition fails, nothing is
\* dumped.
C10_DumpOnceBeforeReduction == [](DumpOrder) /\ [][DumpStep]_vars

C10_Witness ==
    /\ pc = "reduce"
    /\ options.pretty_print
    /\ DumpCount(stdout) = 1
    /\ Len(stdout) > 10
    /\ acc = <<>>

====
